---- MODULE Spec2Model ----
(***************************************************************************)
(* State-machine model of the XIM client session of xcb-imdkit-rs          *)
(* (src/src/lib.rs): the Ime object, its optional input-context record,    *)
(* the callback registry, and the protocol engine seen through the calls   *)
(* the session makes into it and the callbacks it delivers.                *)
(***************************************************************************)
EXTENDS Integers, Sequences, FiniteSets, TLC

\* ------------------------------------------------------------- bounds
\* Window ids are 1..MaxWin.
MaxWin == 2
\* Context handles the server may return are 0..MaxIc (0 = no context).
MaxIc == 2
\* Application closures are identified by 1..MaxHandler.
MaxHandler == 1
\* Caret coordinates are drawn from 0..MaxCoord.
MaxCoord == 1
\* Committed byte strings have at most MaxText bytes.
MaxText == 1
\* Longest committed text in the commit-path specification.
MaxCommitLen == 3
\* Threads that emit diagnostics or install a logger.
MaxThreads == 2
\* Logger closures; the last one installs a logger from inside itself.
MaxLogHandler == 2

\* -------------------------------------------------- program constants
XCB_KEY_PRESS == 2
XCB_KEY_RELEASE == 3
\* The top bit of response_type marks an event sent by another client.
SEND_EVENT_BIT == 128
\* A core event type that is no key event (button press).
XCB_BUTTON_PRESS == 4

Windows == 1..MaxWin
IcHandles == 0..MaxIc
Handlers == 1..MaxHandler
Coords == 0..MaxCoord
RespTypes == {XCB_KEY_PRESS, XCB_KEY_RELEASE, XCB_BUTTON_PRESS,
              XCB_KEY_PRESS + SEND_EVENT_BIT}

VARIABLES
    session,        \* "none" | "live" | "dropped" | "crashed": the Ime object
    im,             \* Ime.im: "null" or "ok", the engine's client handle
    conn,           \* Ime.conn: TRUE when the session holds the connection
    ic,             \* Ime.ic: Option<Ic>, <<>> or <<[win, ic]>>
    callbacks,      \* Ime.callbacks: each slot <<>> or <<handler>>
    openPending,    \* engine: an accepted open whose open_callback is due
    createPending,  \* engine: a create-IC request whose callback is due
    srvWin,         \* engine: client/focus window last pushed to the server
    icFocus,        \* engine: context last given focus by set_ic_focus
    lastOp,         \* the operation that ran last
    arg,            \* the inputs of the operation that ran last
    ret,            \* its return value (process_event, update_pos)
    calls,          \* the engine calls it made, in order
    delivered,      \* the application handlers it invoked, in order
    LOGGER,         \* the static LOGGER slot: <<>> or <<closure>>
    lockOwner,      \* the thread holding LOGGER's mutex, 0 when free
    tpc,            \* each thread's position in rust_log / set_logger
    targ,           \* each thread's message or closure in hand
    got             \* per thread: the closures its last message reached

imevars == <<session, im, conn, ic, callbacks, openPending, createPending,
             srvWin, icFocus, lastOp, arg, ret, calls, delivered>>

logvars == <<LOGGER, lockOwner, tpc, targ, got>>

vars == <<imevars, logvars>>

\* ------------------------------------------------------------ records
\* Option<T> is a sequence of length 0 (None) or 1 (Some).
None == <<>>
Some(v) == <<v>>
IsSome(o) == Len(o) = 1

\* struct Ic { win, ic }
Ic(win, h) == [win |-> win, ic |-> h]

\* One call into the protocol engine.
Call(f) ==
    [f |-> f, ic |-> 0, win |-> 0, x |-> 0, y |-> 0, rt |-> 0, res |-> FALSE,
     text |-> <<>>]

\* One invocation of an application handler.
Delivery(kind, h) == [kind |-> kind, h |-> h, win |-> 0, rt |-> 0, text |-> <<>>]

NoArg == [rt |-> 0, win |-> 0, x |-> 0, y |-> 0, h |-> 0, text |-> <<>>, enc |-> "none"]

\* Calls of engine function f in a sequence of calls.
CallsOf(cs, f) == {i \in 1..Len(cs) : cs[i].f = f}
CountIn(cs, f) == Cardinality(CallsOf(cs, f))
HasCall(f) == CallsOf(calls, f) # {}

\* ------------------------------------------------------ pure helpers
\* event.response_type() & !0x80
Mask(rt) == rt % SEND_EVENT_BIT

IsKeyEvent(rt) == (Mask(rt) = XCB_KEY_PRESS) \/ (Mask(rt) = XCB_KEY_RELEASE)

\* set_ic_window without the test for an unchanged window.
set_ic_window_always(icv, win) ==
    IF IsSome(icv)
    THEN IF icv[1].ic = 0
         THEN [ic |-> icv, calls |-> <<>>]
         ELSE [ic |-> Some(Ic(win, icv[1].ic)),
               calls |-> <<[Call("set_ic_values_window") EXCEPT
                              !.ic = icv[1].ic, !.win = win]>>]
    ELSE [ic |-> icv, calls |-> <<>>]

\* set_ic_window that rewrites the stored window and tells the server nothing.
set_ic_window_no_push(icv, win) ==
    IF IsSome(icv)
    THEN IF icv[1].win = win \/ icv[1].ic = 0
         THEN [ic |-> icv, calls |-> <<>>]
         ELSE [ic |-> Some(Ic(win, icv[1].ic)), calls |-> <<>>]
    ELSE [ic |-> icv, calls |-> <<>>]

\* set_ic_window that forgets the handle when it moves the window.
set_ic_window_resets_handle(icv, win) ==
    IF IsSome(icv)
    THEN IF icv[1].win = win \/ icv[1].ic = 0
         THEN [ic |-> icv, calls |-> <<>>]
         ELSE [ic |-> Some(Ic(win, 0)),
               calls |-> <<[Call("set_ic_values_window") EXCEPT
                              !.ic = icv[1].ic, !.win = win]>>]
    ELSE [ic |-> icv, calls |-> <<>>]

\* set_ic_window that drops the record of a context whose window moves, so
\* that the next step opens a new one.
set_ic_window_recreates(icv, win) ==
    IF IsSome(icv)
    THEN IF icv[1].win = win \/ icv[1].ic = 0
         THEN [ic |-> icv, calls |-> <<>>]
         ELSE [ic |-> None, calls |-> <<>>]
    ELSE [ic |-> icv, calls |-> <<>>]

\* set_ic_window without the test for a handle that is still 0.
set_ic_window_ignores_handle(icv, win) ==
    IF IsSome(icv)
    THEN IF icv[1].win = win
         THEN [ic |-> icv, calls |-> <<>>]
         ELSE [ic |-> Some(Ic(win, icv[1].ic)),
               calls |-> <<[Call("set_ic_values_window") EXCEPT
                              !.ic = icv[1].ic, !.win = win]>>]
    ELSE [ic |-> icv, calls |-> <<>>]

\* Ime::set_ic_window : the record after the retarget and the calls made.
set_ic_window(icv, win) ==
    IF IsSome(icv)
    THEN IF icv[1].win = win \/ icv[1].ic = 0
         THEN [ic |-> icv, calls |-> <<>>]
         ELSE [ic |-> Some(Ic(win, icv[1].ic)),
               calls |-> <<[Call("set_ic_values_window") EXCEPT
                              !.ic = icv[1].ic, !.win = win]>>]
    ELSE [ic |-> icv, calls |-> <<>>]

\* try_open_ic that leaves the provisional record in place when open fails.
try_open_ic_keeps_record(icv, win, opn) ==
    IF IsSome(icv)
    THEN [ic |-> icv, calls |-> <<>>, pending |-> FALSE]
    ELSE [ic |-> Some(Ic(win, 0)),
          calls |-> <<[Call("open") EXCEPT !.res = opn]>>,
          pending |-> opn]

\* Ime::try_open_ic : opn is what xcb_xim_open returns.  The provisional
\* record is inserted before the open call and taken back when it fails.
try_open_ic(icv, win, opn) ==
    IF IsSome(icv)
    THEN [ic |-> icv, calls |-> <<>>, pending |-> FALSE]
    ELSE LET inserted == Some(Ic(win, 0))
         IN [ic |-> IF ~opn THEN None ELSE inserted,
             calls |-> <<[Call("open") EXCEPT !.res = opn]>>,
             pending |-> opn]

\* The branch with the forward left out: the key is handed back to the caller.
wait_always(icv, rt, win) == [calls |-> <<>>, ret |-> FALSE]

\* The forward without the test for a handle that is still 0.
forward_always(icv, rt, win) ==
    [calls |-> <<[Call("forward_event") EXCEPT
                    !.ic = icv[1].ic, !.rt = rt, !.win = win]>>,
     ret |-> TRUE]

\* The forward made, and the key still handed back to the caller.
forward_but_false(icv, rt, win) ==
    IF icv[1].ic = 0
    THEN [calls |-> <<>>, ret |-> FALSE]
    ELSE [calls |-> <<[Call("forward_event") EXCEPT
                         !.ic = icv[1].ic, !.rt = rt, !.win = win]>>,
          ret |-> FALSE]

\* Ime::process_event, lines 234-241 : a record exists after the retarget;
\* the event is forwarded under its handle unless the handle is still 0.
forward_or_wait(icv, rt, win) ==
    IF icv[1].ic = 0
    THEN [calls |-> <<>>, ret |-> FALSE]
    ELSE [calls |-> <<[Call("forward_event") EXCEPT
                         !.ic = icv[1].ic, !.rt = rt, !.win = win]>>,
          ret |-> TRUE]

\* Ime::process_event : flt is what xcb_xim_filter_event returns.  An event
\* the filter consumed skips the whole dispatch and falls to the final false.
process_event(icv, rt, win, flt, opn) ==
    LET filt == <<[Call("filter_event") EXCEPT !.rt = rt, !.win = win, !.res = flt]>>
    IN IF ~flt
       THEN IF IsKeyEvent(rt)
            THEN LET s == set_ic_window(icv, win)
                 IN IF IsSome(s.ic)
                    THEN LET f == forward_or_wait(s.ic, rt, win)
                         IN [ic |-> s.ic, calls |-> filt \o s.calls \o f.calls,
                             pending |-> FALSE, ret |-> f.ret]
                    ELSE LET o == try_open_ic(s.ic, win, opn)
                         IN [ic |-> o.ic, calls |-> filt \o s.calls \o o.calls,
                             pending |-> o.pending, ret |-> FALSE]
            ELSE [ic |-> icv, calls |-> filt, pending |-> FALSE, ret |-> FALSE]
       ELSE [ic |-> icv, calls |-> filt, pending |-> FALSE, ret |-> FALSE]

\* update_pos that takes any record, created or not, for a context.
update_pos_any_record(icv, win, x, y) ==
    LET s == set_ic_window(icv, win)
    IN IF IsSome(s.ic)
       THEN [ic |-> s.ic,
             calls |-> s.calls \o
                 <<[Call("set_ic_values_spot") EXCEPT
                      !.ic = s.ic[1].ic, !.x = x, !.y = y]>>,
             ret |-> TRUE]
       ELSE [ic |-> s.ic, calls |-> s.calls, ret |-> FALSE]

\* Ime::update_pos
update_pos(icv, win, x, y) ==
    LET s == set_ic_window(icv, win)
    IN IF IsSome(s.ic) /\ s.ic[1].ic # 0
       THEN [ic |-> s.ic,
             calls |-> s.calls \o
                 <<[Call("set_ic_values_spot") EXCEPT
                      !.ic = s.ic[1].ic, !.x = x, !.y = y]>>,
             ret |-> TRUE]
       ELSE [ic |-> s.ic, calls |-> s.calls, ret |-> FALSE]

\* open_callback that leaves the client and focus window out of the request.
open_callback_no_window(icv) ==
    <<[Call("create_ic") EXCEPT !.win = 0, !.x = 0, !.y = 0]>>

\* open_callback : the create-IC request, for the window of the record the
\* token points to, with spot location (0, 0).
open_callback(icv) ==
    <<[Call("create_ic") EXCEPT !.win = icv[1].win, !.x = 0, !.y = 0]>>

\* create_ic_callback : stores the handle and gives it focus.
\* A create-callback that takes the record away when the server refused.
create_ic_callback_resets(icv, new_ic) ==
    [ic |-> IF new_ic = 0 THEN None ELSE Some(Ic(icv[1].win, new_ic)),
     calls |-> <<[Call("set_ic_focus") EXCEPT !.ic = new_ic]>>]

create_ic_callback(icv, new_ic) ==
    [ic |-> Some(Ic(icv[1].win, new_ic)),
     calls |-> <<[Call("set_ic_focus") EXCEPT !.ic = new_ic]>>]

\* ------------------------------------------------ commit-text decoding
\* U+FFFD in UTF-8, what to_string_lossy puts for an invalid sequence.
ReplacementChar == <<239, 191, 189>>

IsCont(b) == b >= 128 /\ b <= 191

\* Length of the sequence a lead byte announces; 0 for a byte that is no lead.
Utf8Width(b) ==
    IF b < 128 THEN 1
    ELSE IF b >= 194 /\ b <= 223 THEN 2
    ELSE IF b >= 224 /\ b <= 239 THEN 3
    ELSE IF b >= 240 /\ b <= 244 THEN 4
    ELSE 0

\* The second byte of a sequence, by its lead byte.
SecondOk(lead, b) ==
    IF lead = 224 THEN b >= 160 /\ b <= 191
    ELSE IF lead = 237 THEN b >= 128 /\ b <= 159
    ELSE IF lead = 240 THEN b >= 144 /\ b <= 191
    ELSE IF lead = 244 THEN b >= 128 /\ b <= 143
    ELSE IsCont(b)

\* How many bytes at s[i..] form the longest prefix of a well-formed sequence.
Utf8Prefix(s, i) ==
    LET w == Utf8Width(s[i])
    IN IF w <= 1 THEN 1
       ELSE IF i + 1 > Len(s) \/ ~SecondOk(s[i], s[i + 1]) THEN 1
       ELSE IF w = 2 THEN 2
       ELSE IF i + 2 > Len(s) \/ ~IsCont(s[i + 2]) THEN 2
       ELSE IF w = 3 THEN 3
       ELSE IF i + 3 > Len(s) \/ ~IsCont(s[i + 3]) THEN 3
       ELSE 4

\* String::from_utf8_lossy : well-formed sequences are copied, each maximal
\* ill-formed prefix becomes one U+FFFD.
RECURSIVE Utf8LossyFrom(_, _)
Utf8LossyFrom(s, i) ==
    IF i > Len(s) THEN <<>>
    ELSE LET w == Utf8Width(s[i])
             n == Utf8Prefix(s, i)
         IN IF w > 0 /\ n = w
            THEN SubSeq(s, i, i + n - 1) \o Utf8LossyFrom(s, i + n)
            ELSE ReplacementChar \o Utf8LossyFrom(s, i + n)

\* CStr::from_bytes_with_nul_unchecked(&buf).to_string_lossy() : the last
\* byte of buf is taken for the terminator whatever it is.
to_string_lossy(buf) == Utf8LossyFrom(SubSeq(buf, 1, Len(buf) - 1), 1)

\* The buffer taken without the byte after the text.
commit_buf_no_terminator(enc, input, length, conv) ==
    IF enc = "UTF8_STRING"
    THEN SubSeq(input, 1, length)
    ELSE IF enc = "COMPOUND_TEXT"
         THEN IF IsSome(conv) THEN conv[1] ELSE <<0>>
         ELSE <<>>

\* commit_string_callback, lines 79-96 : the buffer built from the engine's
\* input (length bytes and the byte after them) for the negotiated encoding.
\* conv is what xcb_compound_text_to_utf8 returns: None for NULL, else the
\* converted bytes with their terminator.  <<>> is the buffer left empty.
commit_buf(enc, input, length, conv) ==
    IF enc = "UTF8_STRING"
    THEN SubSeq(input, 1, length + 1)
    ELSE IF enc = "COMPOUND_TEXT"
         THEN IF IsSome(conv) THEN conv[1] ELSE <<0>>
         ELSE <<>>

\* ------------------------------------------------------------- state
Threads == 1..MaxThreads
LogHandlers == 1..MaxLogHandler
\* Text of a diagnostic as the engine passes it: 'A', and a lone lead byte.
LogMsgs == {<<65>>, <<195>>}

NoLogArg == [msg |-> <<>>, h |-> 0]

\* No logger installed, the mutex free, no thread inside the logging code.
LogIdle ==
    /\ LOGGER = None
    /\ lockOwner = 0
    /\ tpc = [t \in Threads |-> "idle"]
    /\ targ = [t \in Threads |-> NoLogArg]
    /\ got = [t \in Threads |-> <<>>]

Init ==
    /\ session = "none"
    /\ im = "null"
    /\ conn = FALSE
    /\ ic = None
    /\ callbacks = [commit_string |-> None, forward_event |-> None]
    /\ openPending = FALSE
    /\ createPending = FALSE
    /\ srvWin = 0
    /\ icFocus = 0
    /\ lastOp = "init"
    /\ arg = NoArg
    /\ ret = FALSE
    /\ calls = <<>>
    /\ delivered = <<>>
    /\ LogIdle

\* ------------------------------------------------------------ inputs
\* Bytes of committed text: 'A' and the two bytes of U+00E9.
Bytes == {65, 195, 169}
\* The byte the engine's buffer holds after the text.
Tails == {0, 65}
Encodings == {"UTF8_STRING", "COMPOUND_TEXT", "OTHER"}

RECURSIVE SeqsUpTo(_, _)
SeqsUpTo(S, n) ==
    IF n = 0 THEN {<<>>}
    ELSE LET shorter == SeqsUpTo(S, n - 1)
         IN shorter \cup {Append(t, b) : t \in shorter, b \in S}

Texts == SeqsUpTo(Bytes, MaxText)
LongTexts == SeqsUpTo(Bytes, MaxCommitLen)
\* What the compound-text codec may hand back: NULL or terminated UTF-8.
CodecOut == {None, Some(<<0>>), Some(<<65, 0>>)}
\* The bytes handed to the codec, whose result does not depend on them here.
CodecIn == {<<65>>}

\* ----------------------------------------------------------- actions
Observe(op, a, r, c, d) ==
    /\ lastOp' = op
    /\ arg' = a
    /\ ret' = r
    /\ calls' = c
    /\ delivered' = d

\* The window the server holds after a sequence of engine calls.
PushedWin(cs, old) ==
    LET idx == {i \in 1..Len(cs) : cs[i].f \in {"set_ic_values_window", "create_ic"}}
    IN IF idx = {} THEN old
       ELSE cs[CHOOSE i \in idx : \A j \in idx : j <= i].win

\* Ime::unsafe_new, the engine calls of lines 161-182 in order.  handleOk is
\* whether xcb_xim_create returned a handle; the code does not test it.
unsafe_new(handleOk) ==
    <<Call("compound_text_init"),
      [Call("create") EXCEPT !.res = handleOk],
      Call("set_im_callback"),
      Call("set_log_handler"),
      Call("set_use_compound_text"),
      Call("set_use_utf8_string")>>

\* Construction.  With a null handle the registration calls dereference it
\* inside the engine: the process faults there, or the calls return and the
\* session is handed out with im = null.
Construct(op, handleOk, fault, keep) ==
    /\ session = "none"
    /\ fault => ~handleOk
    /\ session' = IF fault THEN "crashed" ELSE "live"
    /\ im' = IF handleOk THEN "ok" ELSE "null"
    /\ conn' = (keep /\ ~fault)
    /\ Observe(op, NoArg, FALSE,
               IF fault THEN SubSeq(unsafe_new(handleOk), 1, 3)
               ELSE unsafe_new(handleOk), <<>>)
    /\ UNCHANGED logvars
    /\ UNCHANGED <<ic, callbacks, openPending, createPending, srvWin, icFocus>>

\* Ime::unsafe_new
UnsafeNew == \E handleOk \in BOOLEAN, fault \in BOOLEAN :
    Construct("unsafe_new", handleOk, fault, FALSE)

\* Ime::new : unsafe_new, then the connection is stored.
New == \E handleOk \in BOOLEAN, fault \in BOOLEAN :
    Construct("new", handleOk, fault, TRUE)

\* What the engine's filter may take for itself: the protocol's own traffic
\* (client messages, property and selection notifications), never a key event.
FilterMayConsume(rt) == ~IsKeyEvent(rt)

\* Ime::process_event.  flt and opn are the engine's answers; opn is read
\* only when the open call is made, so it is fixed to TRUE otherwise.
ProcessEvent == \E rt \in RespTypes, win \in Windows, flt \in BOOLEAN, opn \in BOOLEAN :
    /\ session = "live"
    /\ (flt => FilterMayConsume(rt))
    /\ (~opn => (~IsSome(ic) /\ ~flt /\ IsKeyEvent(rt)))
    /\ LET r == process_event(ic, rt, win, flt, opn)
       IN /\ ic' = r.ic
          /\ openPending' = (openPending \/ (r.pending /\ im = "ok"))
          /\ srvWin' = PushedWin(r.calls, srvWin)
          /\ Observe("process_event", [NoArg EXCEPT !.rt = rt, !.win = win],
                     r.ret, r.calls, <<>>)
    /\ UNCHANGED logvars
    /\ UNCHANGED <<session, im, conn, callbacks, createPending, icFocus>>

\* Ime::update_pos
UpdatePos == \E win \in Windows, x \in Coords, y \in Coords :
    /\ session = "live"
    /\ LET r == update_pos(ic, win, x, y)
       IN /\ ic' = r.ic
          /\ srvWin' = PushedWin(r.calls, srvWin)
          /\ Observe("update_pos", [NoArg EXCEPT !.win = win, !.x = x, !.y = y],
                     r.ret, r.calls, <<>>)
    /\ UNCHANGED logvars
    /\ UNCHANGED <<session, im, conn, callbacks, openPending, createPending, icFocus>>

\* Ime::set_commit_string_cb
SetCommitStringCb == \E h \in Handlers :
    /\ session = "live"
    /\ callbacks' = [callbacks EXCEPT !.commit_string = Some(h)]
    /\ Observe("set_commit_string_cb", [NoArg EXCEPT !.h = h], FALSE, <<>>, <<>>)
    /\ UNCHANGED logvars
    /\ UNCHANGED <<session, im, conn, ic, openPending, createPending, srvWin, icFocus>>

\* Ime::set_forward_event_cb
SetForwardEventCb == \E h \in Handlers :
    /\ session = "live"
    /\ callbacks' = [callbacks EXCEPT !.forward_event = Some(h)]
    /\ Observe("set_forward_event_cb", [NoArg EXCEPT !.h = h], FALSE, <<>>, <<>>)
    /\ UNCHANGED logvars
    /\ UNCHANGED <<session, im, conn, ic, openPending, createPending, srvWin, icFocus>>

\* open_callback, delivered by the engine for an accepted open.  The token
\* is the address of the record inside Ime.ic, which exists while the open
\* is outstanding.
OpenCallback ==
    /\ session = "live"
    /\ im = "ok"
    /\ openPending
    /\ IsSome(ic)
    /\ openPending' = FALSE
    /\ createPending' = TRUE
    /\ srvWin' = PushedWin(open_callback(ic), srvWin)
    /\ Observe("open_callback", NoArg, FALSE, open_callback(ic), <<>>)
    /\ UNCHANGED logvars
    /\ UNCHANGED <<session, im, conn, ic, callbacks, icFocus>>

\* create_ic_callback, delivered by the engine for a create-IC request;
\* new_ic is 0 when the server refused the context.
CreateIcCallback == \E new_ic \in IcHandles :
    /\ session = "live"
    /\ im = "ok"
    /\ createPending
    /\ IsSome(ic)
    /\ LET r == create_ic_callback(ic, new_ic)
       IN /\ ic' = r.ic
          /\ icFocus' = new_ic
          /\ Observe("create_ic_callback", [NoArg EXCEPT !.h = new_ic],
                     FALSE, r.calls, <<>>)
    /\ createPending' = FALSE
    /\ UNCHANGED logvars
    /\ UNCHANGED <<session, im, conn, callbacks, openPending, srvWin>>
\* The commit callback handing the text over twice, the second time without
\* the window.
commit_string_callback_twice(icv, cbs, enc, input, length, conv) ==
    LET buf == commit_buf(enc, input, length, conv)
    IN IF buf = <<>> \/ ~IsSome(icv)
       THEN [panic |-> TRUE, calls |-> <<Call("get_encoding")>>, delivered |-> <<>>]
       ELSE [panic |-> FALSE, calls |-> <<Call("get_encoding")>>,
             delivered |->
                 IF IsSome(cbs.commit_string)
                 THEN <<[Delivery("commit", cbs.commit_string[1]) EXCEPT
                           !.win = icv[1].win, !.text = to_string_lossy(buf)],
                        [Delivery("commit", cbs.commit_string[1]) EXCEPT
                           !.text = to_string_lossy(buf)]>>
                 ELSE <<>>]

\* commit_string_callback : decodes, reads the window of the current record
\* (unwrap: a panic when there is none) and calls the handler if one is set.
\* A buffer left empty (an encoding that is neither of the two) makes the
\* terminator strip run off the buffer, which ends the process as well.
commit_string_callback(icv, cbs, enc, input, length, conv) ==
    LET buf == commit_buf(enc, input, length, conv)
        enc_calls ==
            IF enc = "UTF8_STRING" THEN <<Call("get_encoding")>>
            ELSE IF enc = "COMPOUND_TEXT"
                 THEN <<Call("get_encoding"), Call("get_encoding"),
                        [Call("compound_text_to_utf8") EXCEPT
                           !.res = IsSome(conv),
                           !.text = IF IsSome(conv) THEN conv[1] ELSE <<>>]>>
                 ELSE <<Call("get_encoding"), Call("get_encoding")>>
    IN IF buf = <<>> \/ ~IsSome(icv)
       THEN [panic |-> TRUE, calls |-> enc_calls, delivered |-> <<>>]
       ELSE [panic |-> FALSE, calls |-> enc_calls,
             delivered |->
                 IF IsSome(cbs.commit_string)
                 THEN <<[Delivery("commit", cbs.commit_string[1]) EXCEPT
                           !.win = icv[1].win, !.text = to_string_lossy(buf)]>>
                 ELSE <<>>]

\* forward_event_callback : hands the event to the handler if one is set.
forward_event_callback(cbs, rt, win) ==
    IF IsSome(cbs.forward_event)
    THEN <<[Delivery("forward", cbs.forward_event[1]) EXCEPT !.rt = rt, !.win = win]>>
    ELSE <<>>

\* The engine delivers a commit string; it was given the callback at
\* construction and may call it in any state of the session.  The input is
\* the text and the byte after it; the codec's answer is read for compound
\* text only.
CommitDeliver(texts) ==
    \E enc \in Encodings, text \in texts, tail \in Tails, conv \in CodecOut :
    /\ session = "live"
    /\ im = "ok"
    /\ (enc # "COMPOUND_TEXT" => conv = None)
    /\ (enc # "UTF8_STRING" => (text \in CodecIn /\ tail = 0))
    /\ LET input == Append(text, tail)
           r == commit_string_callback(ic, callbacks, enc, input, Len(text), conv)
       IN /\ session' = IF r.panic THEN "crashed" ELSE session
          /\ Observe("commit_string_callback",
                     [NoArg EXCEPT !.text = input, !.enc = enc],
                     FALSE, r.calls, r.delivered)
    /\ UNCHANGED logvars
    /\ UNCHANGED <<im, conn, ic, callbacks, openPending, createPending, srvWin, icFocus>>

CommitStringCallback == CommitDeliver(Texts)

\* The engine hands back a key event the server did not consume.
ForwardEventCallback == \E rt \in {t \in RespTypes : IsKeyEvent(t)}, win \in Windows :
    /\ session = "live"
    /\ im = "ok"
    /\ Observe("forward_event_callback", [NoArg EXCEPT !.rt = rt, !.win = win],
               FALSE, <<>>, forward_event_callback(callbacks, rt, win))
    /\ UNCHANGED logvars
    /\ UNCHANGED <<session, im, conn, ic, callbacks, openPending, createPending,
                   srvWin, icFocus>>

\* The handle released before the connection to the server is closed.
drop_destroy_first == <<Call("destroy"), Call("close")>>

\* Drop for Ime, lines 296-299 : the engine calls in order.
drop == <<Call("close"), Call("destroy")>>

\* Drop for Ime : close, then destroy; the engine delivers nothing afterwards.
Drop ==
    /\ session = "live"
    /\ session' = "dropped"
    /\ openPending' = FALSE
    /\ createPending' = FALSE
    /\ Observe("drop", NoArg, FALSE, drop, <<>>)
    /\ UNCHANGED logvars
    /\ UNCHANGED <<im, conn, ic, callbacks, srvWin, icFocus>>

\* process_event or drop on a session whose handle is null: the engine call
\* (filter_event, close) dereferences it and the process may fault.
NullHandleFault == \E op \in {"process_event", "drop"} :
    /\ session = "live"
    /\ im = "null"
    /\ session' = "crashed"
    /\ Observe(op, NoArg, FALSE,
               <<Call(IF op = "drop" THEN "close" ELSE "filter_event")>>, <<>>)
    /\ UNCHANGED logvars
    /\ UNCHANGED <<im, conn, ic, callbacks, openPending, createPending, srvWin, icFocus>>

Next ==
    \/ UnsafeNew
    \/ New
    \/ ProcessEvent
    \/ UpdatePos
    \/ SetCommitStringCb
    \/ SetForwardEventCb
    \/ OpenCallback
    \/ CreateIcCallback
    \/ CommitStringCallback
    \/ ForwardEventCallback
    \/ Drop
    \/ NullHandleFault

Spec == Init /\ [][Next]_vars

\* The engine delivers the acknowledgement of every request it accepted, and
\* the server grants the context.
CreateIcGranted == CreateIcCallback /\ ic'[1].ic # 0

FairSpec == Spec /\ WF_vars(OpenCallback) /\ WF_vars(CreateIcGranted)

\* The commit path on its own: a session whose context has been created (the
\* state the handshake leaves), the server told its window and the handle in
\* focus, receiving commit strings of up to MaxCommitLen bytes.
CommitInit ==
    /\ session = "live"
    /\ im = "ok"
    /\ conn \in BOOLEAN
    /\ \E w \in Windows, h \in IcHandles \ {0} :
          ic = Some(Ic(w, h)) /\ srvWin = w /\ icFocus = h
    /\ callbacks = [commit_string |-> None, forward_event |-> None]
    /\ openPending = FALSE
    /\ createPending = FALSE
    /\ lastOp = "create_ic_callback"
    /\ arg = [NoArg EXCEPT !.h = ic[1].ic]
    /\ ret = FALSE
    /\ calls = <<[Call("set_ic_focus") EXCEPT !.ic = ic[1].ic]>>
    /\ delivered = <<>>
    /\ LogIdle

CommitLong == CommitDeliver(LongTexts)

CommitNext ==
    \/ CommitLong
    \/ SetCommitStringCb

CommitSpec == CommitInit /\ [][CommitNext]_vars

\* ------------------------------------------------------ the logger
\* What the closure does when called: the last closure calls
\* Ime::set_logger from inside itself, the others only take the message.
Reenters(h) == h = MaxLogHandler

\* rust_log, line 25 : the message is decoded before the lock is asked for.
RustLogBegin(t) == \E m \in LogMsgs :
    /\ tpc[t] = "idle"
    /\ tpc' = [tpc EXCEPT ![t] = "emit_wait"]
    /\ targ' = [targ EXCEPT ![t] = [NoLogArg EXCEPT !.msg = Utf8LossyFrom(m, 1)]]
    /\ got' = [got EXCEPT ![t] = <<>>]
    /\ UNCHANGED <<LOGGER, lockOwner>>

\* rust_log, line 26 : LOGGER.lock() returns once the mutex is free.
RustLogLock(t) ==
    /\ tpc[t] = "emit_wait"
    /\ lockOwner = 0
    /\ lockOwner' = t
    /\ tpc' = [tpc EXCEPT ![t] = "emit_held"]
    /\ UNCHANGED <<LOGGER, targ, got>>

\* rust_log, lines 26-28 : with the guard alive, the closure in the slot is
\* called; with an empty slot the message is dropped.  A closure that
\* returns lets the guard go; one that calls set_logger is now inside
\* set_logger, asking for the mutex its own thread holds.
RustLogCall(t) ==
    /\ tpc[t] = "emit_held"
    /\ IF IsSome(LOGGER)
       THEN /\ got' = [got EXCEPT ![t] = Append(@, [h |-> LOGGER[1], msg |-> targ[t].msg])]
            /\ IF Reenters(LOGGER[1])
               THEN /\ tpc' = [tpc EXCEPT ![t] = "nested_wait"]
                    /\ targ' = [targ EXCEPT ![t].h = LOGGER[1]]
                    /\ UNCHANGED lockOwner
               ELSE /\ tpc' = [tpc EXCEPT ![t] = "idle"]
                    /\ lockOwner' = 0
                    /\ UNCHANGED targ
       ELSE /\ tpc' = [tpc EXCEPT ![t] = "idle"]
            /\ lockOwner' = 0
            /\ UNCHANGED <<targ, got>>
    /\ UNCHANGED LOGGER

\* Mutex::lock by the thread that holds the mutex does not return: it blocks
\* for good (no step out of nested_wait) or it panics, which this step is.
RelockPanics(t) ==
    /\ tpc[t] = "nested_wait"
    /\ lockOwner = t
    /\ tpc' = [tpc EXCEPT ![t] = "panicked"]
    /\ UNCHANGED <<LOGGER, lockOwner, targ, got>>

\* Ime::set_logger, line 143, entered.
SetLoggerBegin(t) == \E h \in LogHandlers :
    /\ tpc[t] = "idle"
    /\ tpc' = [tpc EXCEPT ![t] = "set_wait"]
    /\ targ' = [targ EXCEPT ![t] = [NoLogArg EXCEPT !.h = h]]
    /\ UNCHANGED <<LOGGER, lockOwner, got>>

\* Ime::set_logger, line 143 : lock, replace, unlock in one statement.
SetLoggerSwap(t) ==
    /\ tpc[t] = "set_wait"
    /\ lockOwner = 0
    /\ LOGGER' = Some(targ[t].h)
    /\ tpc' = [tpc EXCEPT ![t] = "idle"]
    /\ UNCHANGED <<lockOwner, targ, got>>

\* A session has been constructed (its engine is what emits diagnostics).
LogInit ==
    /\ session = "live"
    /\ im = "ok"
    /\ conn = TRUE
    /\ ic = None
    /\ callbacks = [commit_string |-> None, forward_event |-> None]
    /\ openPending = FALSE
    /\ createPending = FALSE
    /\ srvWin = 0
    /\ icFocus = 0
    /\ lastOp = "new"
    /\ arg = NoArg
    /\ ret = FALSE
    /\ calls = unsafe_new(TRUE)
    /\ delivered = <<>>
    /\ LogIdle

RustLogEnter == \E t \in Threads : RustLogBegin(t) /\ UNCHANGED imevars
RustLogAcquire == \E t \in Threads : RustLogLock(t) /\ UNCHANGED imevars
RustLogInvoke == \E t \in Threads : RustLogCall(t) /\ UNCHANGED imevars
RelockPanic == \E t \in Threads : RelockPanics(t) /\ UNCHANGED imevars
SetLoggerEnter == \E t \in Threads : SetLoggerBegin(t) /\ UNCHANGED imevars
SetLogger == \E t \in Threads : SetLoggerSwap(t) /\ UNCHANGED imevars

LogNext ==
    \/ RustLogEnter
    \/ RustLogAcquire
    \/ RustLogInvoke
    \/ RelockPanic
    \/ SetLoggerEnter
    \/ SetLogger

LogSpec == LogInit /\ [][LogNext]_vars

\* ------------------------------------------------------- state names
NoContext == ~IsSome(ic)
Opening == IsSome(ic) /\ ic[1].ic = 0
Created == IsSome(ic) /\ ic[1].ic # 0

TypeOK ==
    /\ session \in {"none", "live", "dropped", "crashed"}
    /\ im \in {"null", "ok"}
    /\ conn \in BOOLEAN
    /\ ic \in {None} \cup {Some(Ic(w, h)) : w \in Windows, h \in IcHandles}
    /\ openPending \in BOOLEAN
    /\ createPending \in BOOLEAN
    /\ srvWin \in {0} \cup Windows
    /\ icFocus \in IcHandles
    /\ (openPending \/ createPending) => IsSome(ic)
\* ============================================================ claims
\* A process_event step that returned: the state after it is lastOp =
\* "process_event" with the session still live.
ProcessedKey == lastOp = "process_event" /\ session = "live" /\ IsKeyEvent(arg.rt)
FilterConsumed == lastOp = "process_event" /\ session = "live" /\ calls[1].res

\* C1: process_event returns true whenever the engine's filter reports that
\* it consumed the event, and then makes no other engine call.
C1_ConsumedReturnsTrue ==
    FilterConsumed => (ret = TRUE /\ Len(calls) = 1)

\* C2: once a Created record exists for window W, process_event for any key
\* press or release targeting W returns true and forwards exactly that event
\* to the server under the record's handle.
C2_CreatedKeyForwarded ==
    [][ (ProcessedKey' /\ Created /\ arg'.win = ic[1].win) =>
            /\ ret' = TRUE
            /\ ic' = ic
            /\ CountIn(calls', "forward_event") = 1
            /\ calls'[Len(calls')] =
                   [Call("forward_event") EXCEPT
                      !.ic = ic[1].ic, !.rt = arg'.rt, !.win = arg'.win] ]_vars

\* C2 witness: a key event for the stored window was forwarded with no
\* retarget before it.
C2_Witness ==
    /\ ProcessedKey /\ ret = TRUE /\ Created
    /\ arg.win = ic[1].win /\ arg.rt = XCB_KEY_PRESS + SEND_EVENT_BIT
    /\ Len(calls) = 2 /\ calls[2].f = "forward_event"
\* No open-callback and no create-callback has run yet: there is no record,
\* or a provisional one whose open is unanswered (an engine without a handle
\* never answers).
NoAnswerYet ==
    NoContext \/ (Opening /\ ~createPending /\ (openPending \/ im = "null"))

\* C3 as stated: for key events processed before any answer of the server,
\* process_event returns false; the first one (no record yet) stores the
\* provisional record (W, 0) and issues exactly one open request; a later
\* one changes no session state and makes no call but the filter's.
C3_AsStated ==
    [][ (ProcessedKey' /\ NoAnswerYet) =>
            /\ ret' = FALSE
            /\ IF NoContext
               THEN /\ ic' = Some(Ic(arg'.win, 0))
                    /\ CountIn(calls', "open") = 1
               ELSE /\ UNCHANGED <<ic, openPending, createPending, srvWin, icFocus>>
                    /\ Len(calls') = 1 ]_vars

\* C3 amended: the same, except that while no record exists each key event
\* issues exactly one open request and the provisional record (W, 0) is
\* stored exactly when the engine accepts that open.
C3_OpeningKeysReturnFalse ==
    [][ (ProcessedKey' /\ NoAnswerYet) =>
            /\ ret' = FALSE
            /\ Len(calls') >= 1 /\ calls'[1].f = "filter_event"
            /\ IF NoContext
               THEN /\ CountIn(calls', "open") = 1
                    /\ Len(calls') = 2
                    /\ ic' = IF calls'[2].res THEN Some(Ic(arg'.win, 0)) ELSE None
                    /\ UNCHANGED <<createPending, srvWin, icFocus>>
               ELSE /\ UNCHANGED <<ic, openPending, createPending, srvWin, icFocus>>
                    /\ Len(calls') = 1 ]_vars

\* C3 witness: a further key event on W arrived while the provisional record
\* for W awaited the open acknowledgement; only the filter was called.
C3_Witness ==
    /\ ProcessedKey /\ ret = FALSE
    /\ Opening /\ openPending /\ arg.win = ic[1].win
    /\ Len(calls) = 1

\* C4: when the open call reports failure synchronously the provisional
\* record is gone when process_event returns (NoContext, nothing pending),
\* the event returns false, the next key event in NoContext issues a fresh
\* open request, and an open request is issued by nothing but a key event.
C4_SyncOpenFailure ==
    /\ [](\A i \in CallsOf(calls, "open") :
             /\ ProcessedKey
             /\ (~calls[i].res => (NoContext /\ ret = FALSE /\ ~openPending)))
    /\ [][ (ProcessedKey' /\ NoContext) => CountIn(calls', "open") = 1 ]_vars

\* C4 witness: an open request was refused synchronously.
C4_Witness ==
    /\ ProcessedKey /\ NoContext /\ ret = FALSE
    /\ Len(calls) = 2 /\ calls[2].f = "open" /\ ~calls[2].res

\* C5: a failed create (the create-callback delivers handle 0) resets the
\* session to NoContext, so that a further key event opens again.
C5_RejectionResets ==
    (lastOp = "create_ic_callback" /\ arg.h = 0 /\ session = "live") => NoContext

\* C6: update_pos returns true exactly when a Created record exists, and
\* then its last call pushes the one spot location (x, y) under the record's
\* handle; in NoContext or Opening it returns false, calls nothing and leaves
\* the record and the handshake as they were.
C6_UpdatePos ==
    [][ (lastOp' = "update_pos") =>
            /\ ret' = Created
            /\ Created =>
                  /\ CountIn(calls', "set_ic_values_spot") = 1
                  /\ calls'[Len(calls')] =
                         [Call("set_ic_values_spot") EXCEPT
                            !.ic = ic[1].ic, !.x = arg'.x, !.y = arg'.y]
                  /\ ic'[1].ic = ic[1].ic
            /\ ~Created =>
                  /\ calls' = <<>>
                  /\ UNCHANGED <<ic, openPending, createPending, srvWin, icFocus>> ]_vars

\* C6 witness: update_pos pushed a spot location while Created.
C6_Witness ==
    /\ lastOp = "update_pos" /\ ret = TRUE /\ Created
    /\ arg.x = MaxCoord /\ arg.y = 0
    /\ calls[Len(calls)].f = "set_ic_values_spot"

\* A step of an operation that retargets: update_pos, or a key event.
Retargeting == lastOp = "update_pos" \/ ProcessedKey

\* C7: while Created for W, update_pos(V, ..) or a key event for V # W sets
\* the stored window to V and issues exactly one window set-IC-attributes
\* call carrying V under the handle; for V = W (a repeated retarget) the
\* record stays as it is and no window call is issued.
C7_RetargetIdempotent ==
    [][ (Retargeting' /\ Created) =>
            IF arg'.win # ic[1].win
            THEN /\ ic' = Some(Ic(arg'.win, ic[1].ic))
                 /\ CountIn(calls', "set_ic_values_window") = 1
                 /\ \A i \in CallsOf(calls', "set_ic_values_window") :
                        calls'[i] = [Call("set_ic_values_window") EXCEPT
                                       !.ic = ic[1].ic, !.win = arg'.win]
                 /\ srvWin' = arg'.win
            ELSE /\ ic' = ic
                 /\ CountIn(calls', "set_ic_values_window") = 0
                 /\ srvWin' = srvWin ]_vars

\* C7 witness: a retarget to a new window was pushed to the server.
C7_Witness ==
    /\ Retargeting /\ Created
    /\ HasCall("set_ic_values_window")
    /\ ic[1].win = arg.win /\ srvWin = arg.win

\* C8: a commit-string or forward-event callback delivered while its handler
\* is not registered never ends the process, whatever the state of the
\* session, and invokes nothing.
C8_NoHandlerNoCrash ==
    /\ (lastOp = "commit_string_callback" /\ ~IsSome(callbacks.commit_string)
           /\ arg.enc \in {"UTF8_STRING", "COMPOUND_TEXT"})
          => (session = "live" /\ delivered = <<>>)
    /\ (lastOp = "forward_event_callback" /\ ~IsSome(callbacks.forward_event))
          => (session = "live" /\ delivered = <<>>)
\* The create-callback delivered handle 0: the record keeps handle 0 with
\* nothing outstanding.
CreateRefused == Opening /\ ~openPending /\ ~createPending /\ im = "ok"

\* C9: the handshake.  A key event with no record returns false and sends one
\* open request; a create-IC request is issued only by the open-callback and
\* carries the tracked window; the handle becomes non-zero only in the
\* create-callback, which gives that handle focus; a key event on the window
\* of a Created record returns true and is forwarded; and an accepted open
\* whose acknowledgements the engine delivers leads to Created (unless the
\* server refuses the context or the session ends first).
C9_Handshake ==
    /\ [][ (ProcessedKey' /\ NoContext) =>
              (ret' = FALSE /\ CountIn(calls', "open") = 1
                 /\ CountIn(calls', "create_ic") = 0) ]_vars
    /\ [](\A i \in CallsOf(calls, "create_ic") :
             /\ lastOp = "open_callback"
             /\ IsSome(ic) /\ calls[i].win = ic[1].win /\ srvWin = ic[1].win
             /\ createPending)
    /\ [][ (~Created /\ Created') =>
              /\ lastOp' = "create_ic_callback"
              /\ ~createPending' /\ createPending
              /\ ic'[1].win = ic[1].win
              /\ calls' = <<[Call("set_ic_focus") EXCEPT !.ic = ic'[1].ic]>>
              /\ icFocus' = ic'[1].ic ]_vars
    /\ [][ (ProcessedKey' /\ Created /\ arg'.win = ic[1].win) =>
              (ret' = TRUE /\ calls'[Len(calls')].f = "forward_event"
                 /\ calls'[Len(calls')].ic = ic[1].ic) ]_vars
    /\ ((openPending /\ session = "live")
           ~> (Created \/ CreateRefused \/ session # "live"))

\* C9 witness: the scenario's last state: Created for the window the server
\* was told at create-IC, focus on the handle, and a key event on that window
\* just forwarded.
C9_Witness ==
    /\ ProcessedKey /\ ret = TRUE /\ Created
    /\ arg.win = ic[1].win /\ srvWin = ic[1].win /\ icFocus = ic[1].ic
    /\ Len(calls) = 2 /\ calls[2].f = "forward_event" /\ calls[2].ic = ic[1].ic

\* C10: when the engine returns no client handle, session creation fails: no
\* session object is handed out and nothing is registered with the engine.
C10_NullHandleAborts ==
    (lastOp \in {"new", "unsafe_new"} /\ ~calls[2].res) =>
        (session # "live" /\ Len(calls) = 2)

\* C11: no key event is double-delivered: an event given to process_event is
\* forwarded to the server exactly once when process_event returns true and
\* not at all when it returns false; the forward carries that very event, and
\* nothing but process_event forwards.
C11_NoDoubleDelivery ==
    /\ (lastOp = "process_event" /\ session = "live") =>
          /\ CountIn(calls, "forward_event") = (IF ret THEN 1 ELSE 0)
          /\ \A i \in CallsOf(calls, "forward_event") :
                calls[i].rt = arg.rt /\ calls[i].win = arg.win
    /\ HasCall("forward_event") => lastOp = "process_event"

\* C11 witness: a key release was forwarded once and taken from the caller.
C11_Witness ==
    /\ ProcessedKey /\ ret = TRUE /\ arg.rt = XCB_KEY_RELEASE
    /\ CountIn(calls, "forward_event") = 1

\* The text the engine supplied: its buffer without the byte after the text.
Supplied == SubSeq(arg.text, 1, Len(arg.text) - 1)

\* Well-formed UTF-8 of one- and two-byte characters, by the encoding's
\* definition: an ASCII byte, or a lead of 194..223 and one continuation.
RECURSIVE WellFormed(_)
WellFormed(s) ==
    \/ s = <<>>
    \/ s[1] < 128 /\ WellFormed(Tail(s))
    \/ /\ Len(s) >= 2 /\ s[1] >= 194 /\ s[1] <= 223
       /\ s[2] >= 128 /\ s[2] <= 191
       /\ WellFormed(SubSeq(s, 3, Len(s)))

\* C12: commit text round trip.  With UTF-8 negotiated, a commit-string
\* callback that returns hands the registered commit handler exactly the
\* bytes of the given length that the engine supplied, without the byte that
\* follows them, once; this for ASCII and for multi-byte text.
C12_Utf8RoundTrip ==
    (lastOp = "commit_string_callback" /\ arg.enc = "UTF8_STRING"
        /\ session = "live" /\ WellFormed(Supplied)) =>
       IF IsSome(callbacks.commit_string)
       THEN /\ Len(delivered) = 1
            /\ delivered[1].kind = "commit"
            /\ delivered[1].h = callbacks.commit_string[1]
            /\ delivered[1].text = Supplied
       ELSE delivered = <<>>

\* C12 witness: 'A' followed by the two bytes of U+00E9 reached the handler,
\* the byte after the text not being zero.
C12_Witness ==
    /\ lastOp = "commit_string_callback" /\ arg.enc = "UTF8_STRING"
    /\ arg.text = <<65, 195, 169, 65>>
    /\ Len(delivered) = 1 /\ delivered[1].text = <<65, 195, 169>>

\* C13: destroying a session that holds an engine handle, in every state of
\* its context, closes the context's connection and then releases the handle,
\* each once and in that order, invoking no handler; once destruction has
\* returned nothing runs on the session any more: no callback, no operation.
C13_DropClosesThenReleases ==
    /\ [][ (lastOp' = "drop" /\ im = "ok") =>
              /\ session' = "dropped"
              /\ Len(calls') = 2
              /\ calls'[1].f = "close" /\ calls'[2].f = "destroy"
              /\ delivered' = <<>>
              /\ ~openPending' /\ ~createPending' ]_vars
    /\ [][ session # "dropped" ]_vars

\* C13 witness: a session destroyed while its create-IC request was still
\* outstanding.
C13_Witness ==
    /\ lastOp = "drop" /\ session = "dropped" /\ im = "ok"
    /\ Opening /\ srvWin = ic[1].win
    /\ calls = <<Call("close"), Call("destroy")>>

\* A thread inside Mutex::lock for a mutex that it holds itself: the call
\* cannot return.
SelfBlocked(t) == tpc[t] = "nested_wait" /\ lockOwner = t

\* C14: the logger slot is swapped under one lock: a message reaches one
\* closure, whole, or none when the slot is empty; emission never fails, and
\* no thread is ever blocked for good, a closure that calls set_logger
\* included.
C14_LoggerNeverBlocks ==
    \A t \in Threads :
        /\ Len(got[t]) <= 1
        /\ \A i \in 1..Len(got[t]) : got[t][i].msg = targ[t].msg
        /\ tpc[t] # "panicked"
        /\ ~SelfBlocked(t)

\* C15: retarget precedes forward.  Whenever process_event forwards a key
\* event for window V, the window last pushed to the server for the context
\* (by create-IC or by set-IC-values) is V and the stored window is V; a
\* set-IC-values call of the same operation comes before the forward.  Being
\* an invariant, this covers runs in which keys for other windows arrived
\* while the context was Opening.
C15_RetargetPrecedesForward ==
    \A i \in CallsOf(calls, "forward_event") :
        /\ lastOp = "process_event"
        /\ calls[i].win = arg.win
        /\ IsSome(ic) /\ ic[1].win = arg.win /\ ic[1].ic = calls[i].ic
        /\ srvWin = arg.win
        /\ \A j \in CallsOf(calls, "set_ic_values_window") :
              j < i /\ calls[j].win = arg.win /\ calls[j].ic = calls[i].ic

\* C15 witness: a key for a window other than the stored one: filtered,
\* retargeted, then forwarded.
C15_Witness ==
    /\ ProcessedKey /\ Len(calls) = 3
    /\ calls[2].f = "set_ic_values_window" /\ calls[2].win = arg.win
    /\ calls[3].f = "forward_event" /\ calls[3].win = arg.win
    /\ srvWin = arg.win

\* C16 as stated: from the first key event on a record exists, that is,
\* every key event that process_event has handled leaves a record behind.
C16_AsStated == ProcessedKey => IsSome(ic)

\* C16: the lifetime of current_ic.  A record comes into being only by a key
\* event with no record whose open request the engine accepts, provisional
\* for that event's window (non-key events, update_pos, the setters and the
\* callbacks never create it); a key event whose open fails synchronously
\* leaves it absent; and a record present after an operation is never
\* removed by a later one.
C16_RecordLifetime ==
    /\ [][ (~IsSome(ic) /\ IsSome(ic')) =>
              /\ ProcessedKey'
              /\ \E i \in CallsOf(calls', "open") : calls'[i].res
              /\ ic' = Some(Ic(arg'.win, 0)) ]_vars
    /\ [][ (ProcessedKey' /\ \E i \in CallsOf(calls', "open") : ~calls'[i].res)
              => (~IsSome(ic) /\ ~IsSome(ic')) ]_vars
    /\ [][ IsSome(ic) => IsSome(ic') ]_vars

\* C16 witness: the first key event whose open was accepted has just created
\* the provisional record.
C16_Witness ==
    /\ ProcessedKey /\ Opening /\ openPending
    /\ Len(calls) = 2 /\ calls[2].f = "open" /\ calls[2].res
    /\ ic = Some(Ic(arg.win, 0))

\* C17: the handle of an existing record is changed by the create-callback
\* only, which stores the handle it was given and keeps the window; every
\* other operation and callback leaves the handle as it is, and a change of
\* the stored window (by update_pos or a key event) leaves the handle fixed.
C17_HandleOnlyByCreateCallback ==
    /\ [][ (IsSome(ic) /\ IsSome(ic') /\ ic'[1].ic # ic[1].ic) =>
              /\ lastOp' = "create_ic_callback"
              /\ ic'[1].ic = arg'.h
              /\ ic'[1].win = ic[1].win ]_vars
    /\ [][ (IsSome(ic) /\ IsSome(ic') /\ ic'[1].win # ic[1].win) =>
              /\ Retargeting'
              /\ ic'[1].ic = ic[1].ic ]_vars

\* C17 witness: update_pos has moved the window of a created context, whose
\* handle is still the one the create-callback gave focus to.
C17_Witness ==
    /\ lastOp = "update_pos" /\ Created
    /\ Len(calls) = 2 /\ calls[1].f = "set_ic_values_window"
    /\ calls[1].ic = ic[1].ic /\ ic[1].ic = icFocus
    /\ ic[1].win = arg.win

\* C18: Created is terminal.  From a record with a non-zero handle every
\* step (key events on any window, update_pos, callbacks, destruction)
\* leaves the record with the same handle, sends no open and no create-IC
\* request and leaves none outstanding; a key event or update_pos for
\* another window rewrites the stored window in place.
C18_CreatedIsTerminal ==
    /\ [][ Created =>
              /\ Created' /\ ic'[1].ic = ic[1].ic
              /\ CountIn(calls', "open") = 0
              /\ CountIn(calls', "create_ic") = 0
              /\ ~openPending' /\ ~createPending' ]_vars
    /\ [][ (Created /\ Retargeting' /\ arg'.win # ic[1].win) =>
              ic' = Some(Ic(arg'.win, ic[1].ic)) ]_vars

\* C18 witness: a key event for another window reached a created context:
\* the window rewritten, the event forwarded under the old handle, nothing
\* opened.
C18_Witness ==
    /\ ProcessedKey /\ Created /\ ret = TRUE
    /\ HasCall("set_ic_values_window") /\ ~HasCall("open")
    /\ ic[1].ic = icFocus /\ ic[1].win = arg.win
    /\ ~openPending /\ ~createPending

\* C19: the commit handler is given the window stored in the record at the
\* moment the commit-string callback runs (after a retarget from W to V that
\* is V), and a callback that returns invokes the registered handler exactly
\* once; the callback changes neither record nor handlers.
C19_CommitWindow ==
    [][ (lastOp' = "commit_string_callback" /\ session' = "live") =>
          /\ IsSome(ic) /\ ic' = ic /\ callbacks' = callbacks
          /\ IF IsSome(callbacks.commit_string)
             THEN /\ Len(delivered') = 1
                  /\ delivered'[1].kind = "commit"
                  /\ delivered'[1].h = callbacks.commit_string[1]
                  /\ delivered'[1].win = ic[1].win
             ELSE delivered' = <<>> ]_vars

\* C19 witness: a commit delivered for a created context whose window, the
\* one the server holds, is the last window: the handler was given it.
C19_Witness ==
    /\ lastOp = "commit_string_callback" /\ Created
    /\ ic[1].win = MaxWin /\ srvWin = MaxWin
    /\ Len(delivered) = 1 /\ delivered[1].win = MaxWin
    /\ delivered[1].text = <<65>>

\* C20: one context per session.  An open request is sent only by a key
\* event that found no record, one per event; at most one of open and
\* create-IC is outstanding, and only while the record is provisional; a
\* handle once held is the only one; and a key event for a window V while
\* the session is Opening for W sends nothing but the filter call, returns
\* false and leaves record and handshake as they were.
C20_SingleContext ==
    /\ [](~(openPending /\ createPending)
            /\ ((openPending \/ createPending) => Opening))
    /\ [][ CountIn(calls', "open") > 0 =>
              (NoContext /\ ProcessedKey' /\ CountIn(calls', "open") = 1) ]_vars
    /\ [][ Created => (IsSome(ic') /\ ic'[1].ic = ic[1].ic) ]_vars
    /\ [][ (ProcessedKey' /\ Opening /\ arg'.win # ic[1].win) =>
              /\ ic' = ic /\ ret' = FALSE
              /\ Len(calls') = 1 /\ calls'[1].f = "filter_event"
              /\ openPending' = openPending /\ createPending' = createPending
              /\ srvWin' = srvWin ]_vars

\* C20 witness: Opening for one window with the create-IC request under way,
\* a key event for another window has been handled: no call but the filter,
\* the record's window in place.
C20_Witness ==
    /\ ProcessedKey /\ ret = FALSE /\ Opening /\ createPending
    /\ arg.win # ic[1].win /\ srvWin = ic[1].win
    /\ Len(calls) = 1

====
